---- MODULE Spec2Model ----
(***************************************************************************)
(* State-machine model of the SMTC session event bridge, class SMTCMedia   *)
(* of src/addons/smtc.cc.                                                  *)
(*                                                                         *)
(* The bridge object's fields, the thread-safe functions it creates, the   *)
(* OS session manager it subscribes to and the queue of cross-thread calls *)
(* are the state.  Every JavaScript-facing method (on, off, getSessions,   *)
(* getCurrentSession, getSessionInfo), the teardown (Cleanup), the OS      *)
(* event handlers and the queued JavaScript call are actions.  A method    *)
(* runs on the JavaScript thread and is one step; an OS per-session        *)
(* handler is two steps (GetEventCallback, then NonBlockingCall), since it *)
(* runs on an OS thread beside the JavaScript thread; the queued call      *)
(* runs later on the JavaScript thread.                                    *)
(*                                                                         *)
(* Spec has one session identity and three event names; SpecDiff has two   *)
(* identities and the two session-list event names.                        *)
(***************************************************************************)
EXTENDS Integers, Sequences, FiniteSets, TLC

\* ------------------------------------------------------------ bounds
\* Thread-safe functions of one event name not yet finalized at one time.
MaxTsfn == 2
\* OS notifications whose handlers or queued calls have not all run.
MaxNotifs == 1
\* Event names holding a callback at one time.
MaxLive == 2
\* OS subscriptions of the bridge on one event of one session.
MaxDup == 2
\* Runs of the teardown.
MaxCleanups == 2
\* Notifications whose calls are queued and not yet run, where handlers run whole.
MaxQueued == 2
\* Runs of the SessionsChanged lambda in progress at once.
MaxPasses == 2

\* ------------------------------------------------------------ domains
\* Session identities (SourceAppUserModelId), in the OS's enumeration order.
SessionOrder == <<"AppA", "AppB">>
Sessions == {SessionOrder[i] : i \in 1..Len(SessionOrder)}

ManagerKinds == {"sessionadded", "sessionremoved"}
SessionKinds == {"playbackstatechanged", "timelinepropertieschanged",
                 "mediapropertieschanged"}
EventKinds == ManagerKinds \cup SessionKinds
\* std::map<std::string, CallbackData> iterates its keys in this order.
NameOrder == <<"bogus", "mediapropertieschanged", "playbackstatechanged",
               "sessionadded", "sessionremoved", "timelinepropertieschanged">>
\* JavaScript functions a caller passes, and a value that is no function.
JsCallbacks == {"cbA", "cbB"}
NotAFunction == "notafunction"

VARIABLES
    sessionManager,      \* "manager" or "null": the owned session manager handle
    apartment,           \* init_apartment calls minus uninit_apartment calls
    sessionAddedToken,   \* event_token value, 0 when unset
    sessionRemovedToken, \* event_token value, 0 when unset
    sessionEventTokens,  \* map: identity -> sequence of event tokens
    eventCallbacks,      \* map: event name -> [tsfn, active]
    tsfns,               \* the thread-safe functions not yet finalized, <<name, id>> -> record
    osSessions,          \* OS: identities of the live sessions
    osSubs,              \* OS: delegates registered on session events
    mgrSubs,             \* OS: SessionsChanged delegates, token -> captured previousSessionIds
    mgrPending,          \* OS: tokens of SessionsChanged delegates notified, handler not yet run
    inflight,            \* OS threads inside InvokeCallback, past GetEventCallback
    callQueue,           \* calls queued by NonBlockingCall, not yet run
    delivered,           \* JavaScript handler executions since the last method call
    cleanups,            \* completed runs of Cleanup
    callbacksLock,       \* the thread holding callbacksLock, "" when free
    sessionsLock,        \* the thread holding sessionsLock, "" when free
    pc,                  \* JavaScript thread: the rest of the method it is in
    osPc,                \* an OS thread: the rest of the handler it is in
    passes,              \* OS threads inside the SessionsChanged lambda, before line 441
    lastOp               \* the last step: its name, arguments, error, result, effects

vars == <<sessionManager, apartment, sessionAddedToken, sessionRemovedToken,
          sessionEventTokens, eventCallbacks, tsfns, osSessions, osSubs, mgrSubs,
          mgrPending, inflight, callQueue, delivered, cleanups, callbacksLock,
          sessionsLock, pc, osPc, passes, lastOp>>
\* The locks and the positions of the threads inside a method or a handler.
threadVars == <<callbacksLock, sessionsLock, pc, osPc, passes>>

\* ------------------------------------------------------------ helpers
Range(s) == {s[i] : i \in DOMAIN s}
EmptyMap == [x \in {} |-> 0]
Put(f, k, v) == [x \in DOMAIN f \cup {k} |-> IF x = k THEN v ELSE f[x]]
Erase(f, k) == [x \in DOMAIN f \ {k} |-> f[x]]
\* One effect of a step, in the order the code performs it.
Ev(ev, name, app, tok) ==
    [ev |-> ev, name |-> name, app |-> app, tok |-> tok, cb |-> ""]
Note(b, ev, name, app, tok) == [b EXCEPT !.trail = Append(@, Ev(ev, name, app, tok))]
\* An effect on the thread-safe function h of JavaScript function cb.
NoteCb(b, ev, name, h, cb) ==
    [b EXCEPT !.trail = Append(@, [Ev(ev, name, "", h) EXCEPT !.cb = cb])]

\* The bridge and OS state a method works on; trail collects the step's effects.
State ==
    [sessionManager |-> sessionManager, apartment |-> apartment,
     sessionAddedToken |-> sessionAddedToken,
     sessionRemovedToken |-> sessionRemovedToken,
     sessionEventTokens |-> sessionEventTokens, eventCallbacks |-> eventCallbacks,
     tsfns |-> tsfns, osSessions |-> osSessions, osSubs |-> osSubs,
     mgrSubs |-> mgrSubs, mgrPending |-> mgrPending, inflight |-> inflight,
     callQueue |-> callQueue, trail |-> <<>>]

\* sessionManager.GetSessions(): the live sessions, in the OS's order.
Enumerate(live) == SelectSeq(SessionOrder, LAMBDA a : a \in live)

\* Event tokens are opaque values issued by the event source: a new registration
\* gets a value that no registration on that source holds.
SessionTokens(b, app) == {x.tok : x \in {y \in b.osSubs : y.app = app}}
ManagerTokens(b) == DOMAIN b.mgrSubs
FreshToken(used) ==
    CHOOSE t \in 1..(Cardinality(used) + 1) :
        t \notin used /\ \A u \in 1..(t - 1) : u \in used

\* ------------------------------------------------------------ callbacks
\* Thread-safe functions that a queued call or an OS thread still refers to.
Referenced(queue, threads) ==
    {<<c.name, c.h>> : c \in Range(queue)} \cup {<<e.name, e.h>> : e \in threads}
\* A released function is finalized once its queued calls have run.
Finalize(fns, queue, threads) ==
    LET keep == {k \in DOMAIN fns :
                    ~fns[k].released \/ k \in Referenced(queue, threads)}
    IN [k \in keep |-> fns[k]]

\* tsfn.Release(): the handle's only thread reference is given up.
Release(b, name, h, who) ==
    NoteCb([b EXCEPT !.tsfns = Finalize([@ EXCEPT ![<<name, h>>].released = TRUE,
                                                  ![<<name, h>>].by = who],
                                        b.callQueue, b.inflight)],
           "release", name, h, b.tsfns[<<name, h>>].cb)

IsActive(b, name) ==
    name \in DOMAIN b.eventCallbacks /\ b.eventCallbacks[name].active

\* The loop "for (auto &pair : eventCallbacks) if (active && tsfn) {move; active =
\* false; Release}" followed by eventCallbacks.clear().
RECURSIVE ReleaseEach(_, _, _)
ReleaseEach(b, names, who) ==
    IF names = <<>> THEN b
    ELSE LET name == Head(names)
             b1 == IF IsActive(b, name) /\ b.eventCallbacks[name].tsfn # 0
                   THEN Release([b EXCEPT !.eventCallbacks[name] =
                                              [tsfn |-> 0, active |-> FALSE]],
                                name, b.eventCallbacks[name].tsfn, who)
                   ELSE b
         IN ReleaseEach(b1, Tail(names), who)
ReleaseAllCallbacks(b, who) ==
    [ReleaseEach(b, NameOrder, who) EXCEPT !.eventCallbacks = EmptyMap]

GetEventCallback(b, name) ==
    IF IsActive(b, name) THEN b.eventCallbacks[name].tsfn ELSE 0

\* tsfn.NonBlockingCall(lambda): the call is queued for the JavaScript thread.
QueueCall(b, h, name, app, n) ==
    Note([b EXCEPT !.callQueue = Append(@, [h |-> h, name |-> name, app |-> app, n |-> n])],
         "invoke", name, app, h)

\* InvokeCallback run without interruption (inside the SessionsChanged handler).
InvokeCallback(b, name, app, n) ==
    LET h == GetEventCallback(b, name)
    IN IF h = 0 THEN b ELSE QueueCall(b, h, name, app, n)

RegisterEventListener(b, name, cb) ==
    LET old == IF name \in DOMAIN b.eventCallbacks THEN b.eventCallbacks[name]
               ELSE [tsfn |-> 0, active |-> FALSE]
        replaces == old.active /\ old.tsfn # 0
        b1 == IF replaces
              THEN Release([b EXCEPT !.eventCallbacks[name] =
                                         [tsfn |-> 0, active |-> FALSE]],
                           name, old.tsfn, "on")
              ELSE b
        h == FreshToken({k[2] : k \in {j \in DOMAIN b1.tsfns : j[1] = name}})
        fn == [cb |-> cb, released |-> FALSE, by |-> "none"]
    IN NoteCb([b1 EXCEPT !.tsfns = Put(@, <<name, h>>, fn),
                         !.eventCallbacks = Put(@, name, [tsfn |-> h, active |-> TRUE])],
              "install", name, h, cb)

\* ------------------------------------------------------------ session events
\* The three registrations, in the code's order.
SubscribeOrder == <<"playbackstatechanged", "timelinepropertieschanged",
                    "mediapropertieschanged">>

\* RevokeStored with the three revocations dropped.
RevokeStored_Nothing(b, app) == Note(b, "os_unsubscribe", "", app, 0)

\* session.XxxChanged(token) on each of the three events, for each stored token:
\* a token revokes the registration that returned it and nothing else.
RevokeStored(b, app) ==
    LET old == Range(b.sessionEventTokens[app])
    IN Note([b EXCEPT !.osSubs = {x \in @ : ~(x.app = app /\ x.tok \in old
                                              /\ x.name \in SessionKinds)}],
            "os_unsubscribe", "", app, 0)

RegisterSessionEvents(b, app) ==
    LET tracked == app \in DOMAIN b.sessionEventTokens
        \* lines 596-635: revoke on the enumerated session of this identity, if any
        b1 == IF tracked /\ b.sessionManager # "null" /\ app \in b.osSessions
              THEN RevokeStored(b, app) ELSE b
        b2 == IF tracked
              THEN [b1 EXCEPT !.sessionEventTokens = Erase(@, app)] ELSE b1
        used == SessionTokens(b2, app)
        t1 == FreshToken(used)
        t2 == FreshToken(used \cup {t1})
        t3 == FreshToken(used \cup {t1, t2})
        toks == <<t1, t2, t3>>
        new == {[app |-> app, name |-> SubscribeOrder[i], tok |-> toks[i]] : i \in 1..3}
    IN Note([b2 EXCEPT !.osSubs = @ \cup new,
                       !.sessionEventTokens = Put(@, app, toks)],
            "register", "", app, t1)

RECURSIVE RegisterEach(_, _)
RegisterEach(b, sessions) ==
    IF sessions = <<>> THEN b
    ELSE RegisterEach(RegisterSessionEvents(b, Head(sessions)), Tail(sessions))

UnregisterSessionEvents(b, app) ==
    Note([b EXCEPT !.sessionEventTokens = Erase(@, app)], "unregister", "", app, 0)

\* sessionManager.SessionsChanged(handler) and SessionsChanged(token).
SubscribeManager(b, previousSessionIds) ==
    LET tok == FreshToken(ManagerTokens(b))
    IN Note([b EXCEPT !.mgrSubs = Put(@, tok, previousSessionIds),
                      !.sessionAddedToken = tok, !.sessionRemovedToken = tok],
            "manager_subscribe", "", "", tok)
UnsubscribeManager(b, tok) ==
    Note([b EXCEPT !.mgrSubs = Erase(@, tok),
                   !.mgrPending = @ \ {tok}],
         "manager_unsubscribe", "", "", tok)

UnregisterAllEvents(b) ==
    LET b1 == IF b.sessionManager # "null" /\ b.sessionAddedToken # 0
              THEN [UnsubscribeManager(b, b.sessionAddedToken)
                        EXCEPT !.sessionAddedToken = 0]
              ELSE b
        b2 == IF b1.sessionManager # "null" /\ b1.sessionRemovedToken # 0
              THEN [UnsubscribeManager(b1, b1.sessionRemovedToken)
                        EXCEPT !.sessionRemovedToken = 0]
              ELSE b1
        b3 == Note([b2 EXCEPT !.sessionEventTokens = EmptyMap],
                   "clear_session_tokens", "", "", 0)
    IN ReleaseAllCallbacks(b3, "unregisterall")

\* ------------------------------------------------------------ SessionsChanged
\* IsAdded with the comparison against the previous list dropped.
IsAdded_Always(previousSessionIds, appId) == TRUE

\* std::find(previousSessionIds...) == end(): the identity is new.
IsAdded(previousSessionIds, appId) == appId \notin Range(previousSessionIds)
\* std::find(currentSessionIds...) == end(): the identity is gone.
IsRemoved(currentSessionIds, prevId) == prevId \notin Range(currentSessionIds)

\* AddSession with the notification moved before the registration.
AddSession_NotifyFirst(b, app, n) ==
    RegisterSessionEvents(InvokeCallback(b, "sessionadded", app, n), app)

\* The body of the added loop: register the session's events, then notify.
AddSession(b, app, n) ==
    InvokeCallback(RegisterSessionEvents(b, app), "sessionadded", app, n)
\* The body of the removed loop: notify, then unregister.
RemoveSession(b, prevId, n) ==
    UnregisterSessionEvents(InvokeCallback(b, "sessionremoved", prevId, n), prevId)

RECURSIVE AddedLoop(_, _, _, _)
AddedLoop(b, sessions, previousSessionIds, n) ==
    IF sessions = <<>> THEN b
    ELSE LET app == Head(sessions)
             b1 == IF IsAdded(previousSessionIds, app)
                   THEN AddSession(b, app, n) ELSE b
         IN AddedLoop(b1, Tail(sessions), previousSessionIds, n)

RECURSIVE RemovedLoop(_, _, _, _)
RemovedLoop(b, prevIds, currentSessionIds, n) ==
    IF prevIds = <<>> THEN b
    ELSE LET prevId == Head(prevIds)
             b1 == IF IsRemoved(currentSessionIds, prevId)
                   THEN RemoveSession(b, prevId, n) ELSE b
         IN RemovedLoop(b1, Tail(prevIds), currentSessionIds, n)

\* Lines 405-438 of the lambda: enumerate, then the added and the removed loop.
SessionsChangedReact(b, tok, n) ==
    LET previousSessionIds == b.mgrSubs[tok]
        currentSessionIds == Enumerate(b.osSessions)
        b1 == AddedLoop(b, currentSessionIds, previousSessionIds, n)
    IN RemovedLoop(b1, previousSessionIds, currentSessionIds, n)

\* The lambda registered with SessionsChanged, for the delegate of token tok.
SessionsChangedPass(b, tok, n) ==
    IF b.sessionManager = "null" THEN b
    ELSE [SessionsChangedReact(b, tok, n)
              EXCEPT !.mgrSubs[tok] = Enumerate(b.osSessions)]

\* ------------------------------------------------------------ methods
\* On: the result state and the error thrown ("" when none).
OnError(name, cb) ==
    IF cb \notin JsCallbacks THEN "TypeError"
    ELSE IF name \notin EventKinds THEN "Unknown event"
    ELSE ""
On(b, name, cb) ==
    IF cb \notin JsCallbacks THEN b
    ELSE LET b1 == RegisterEventListener(b, name, cb)
             sessions == Enumerate(b1.osSessions)
         IN IF name \in ManagerKinds
            THEN IF b1.sessionAddedToken = 0 /\ b1.sessionRemovedToken = 0
                 THEN SubscribeManager(RegisterEach(b1, sessions), sessions)
                 ELSE b1
            ELSE IF name \in SessionKinds
            THEN RegisterEach(b1, sessions)
            ELSE b1

OffUnsubscribeManager(b) ==
    LET b1 == IF b.sessionAddedToken # 0
              THEN [UnsubscribeManager(b, b.sessionAddedToken)
                        EXCEPT !.sessionAddedToken = 0]
              ELSE b
    IN IF b1.sessionRemovedToken # 0
       THEN [UnsubscribeManager(b1, b1.sessionRemovedToken)
                 EXCEPT !.sessionRemovedToken = 0]
       ELSE b1

\* HasManagerListener with the scan of eventCallbacks dropped.
HasManagerListener_Never(b) == FALSE

\* hasSessionAddedListener || hasSessionRemovedListener.
HasManagerListener(b) == IsActive(b, "sessionadded") \/ IsActive(b, "sessionremoved")

\* HasAnyEventListeners with the scan of eventCallbacks dropped.
HasAnyEventListeners_Never(b) == FALSE

\* hasAnyEventListeners: some slot of eventCallbacks is active.
HasAnyEventListeners(b) ==
    \E k \in DOMAIN b.eventCallbacks : b.eventCallbacks[k].active

\* Off never throws for a string argument.
OffError(name) == ""
Off(b, name) ==
    LET b1 == IF IsActive(b, name)
              THEN Release([b EXCEPT !.eventCallbacks = Erase(@, name)],
                           name, b.eventCallbacks[name].tsfn, "off")
              ELSE b
        b2 == IF name \in ManagerKinds /\ ~HasManagerListener(b1)
              THEN OffUnsubscribeManager(b1) ELSE b1
    IN IF HasAnyEventListeners(b2) THEN b2 ELSE UnregisterAllEvents(b2)

\* The property reads of CreateSessionObject, in the code's order, and what the
\* OS answers to each: a value, no value (media properties only) or an error.
ReadOrder == <<"mediaProperties", "timelineProperties", "playbackInfo">>
ReadKinds == {ReadOrder[i] : i \in 1..Len(ReadOrder)}
Outcomes ==
    {o \in [ReadKinds -> {"ok", "null", "throws"}] :
        o["timelineProperties"] # "null" /\ o["playbackInfo"] # "null"}

\* CreateSessionObject: the keys set on the returned object.  The media read
\* has its own try block; an error of the timeline or the playback read leaves
\* the outer try block.
CreateSessionObject(id, o) ==
    LET media == IF o["mediaProperties"] = "ok" THEN {"mediaProperties"}
                 ELSE IF o["mediaProperties"] = "throws" THEN {"mediaPropertiesError"}
                 ELSE {}
        rest == IF o["timelineProperties"] = "throws" THEN {"error"}
                ELSE IF o["playbackInfo"] = "throws"
                THEN {"timelineProperties", "error"}
                ELSE {"timelineProperties", "playbackInfo"}
    IN [id |-> id, reads |-> o,
        keys |-> {"sourceAppUserModelId"} \cup media \cup rest]

GetSessions(b) == RegisterEach(b, Enumerate(b.osSessions))
GetCurrentSession(b) == b
GetSessionInfo(b, sessionId) == b

Cleanup(b) ==
    LET b1 == ReleaseAllCallbacks(b, "cleanup")
        b2 == UnregisterAllEvents(b1)
        b3 == IF b2.sessionManager # "null"
              THEN Note([b2 EXCEPT !.sessionManager = "null"],
                        "release_manager", "", "", 0)
              ELSE b2
    IN Note([b3 EXCEPT !.apartment = @ - 1], "uninit_apartment", "", "", 0)

\* ------------------------------------------------------------ actions
\* No event of any session carries more than MaxDup delegates of the bridge.
DupOk(b) ==
    \A app \in Sessions, k \in SessionKinds :
        Cardinality({x \in b.osSubs : x.app = app /\ x.name = k}) <= MaxDup
\* No event name has more than MaxTsfn thread-safe functions not yet finalized.
TsfnOk(b) == \A k \in DOMAIN b.tsfns : k[2] <= MaxTsfn
\* No more than MaxLive event names hold a callback.
LiveOk(b) == Cardinality({k \in DOMAIN b.eventCallbacks : IsActive(b, k)}) <= MaxLive

Op(op, arg, err, ret, trail) ==
    [op |-> op, arg |-> arg, err |-> err, ret |-> ret, trail |-> trail]
\* The last step was none of the bridge's methods or handlers.
Idle == Op("", <<>>, "", {}, <<>>)

\* The step's result state b becomes the next state.
Commit(b, op, arg, err, ret) ==
    /\ DupOk(b) /\ TsfnOk(b) /\ LiveOk(b)
    /\ sessionManager' = b.sessionManager
    /\ apartment' = b.apartment
    /\ sessionAddedToken' = b.sessionAddedToken
    /\ sessionRemovedToken' = b.sessionRemovedToken
    /\ sessionEventTokens' = b.sessionEventTokens
    /\ eventCallbacks' = b.eventCallbacks
    /\ tsfns' = b.tsfns
    /\ osSubs' = b.osSubs
    /\ mgrSubs' = b.mgrSubs
    /\ mgrPending' = b.mgrPending
    /\ callQueue' = b.callQueue
    /\ lastOp' = Op(op, arg, err, ret, b.trail)

InitOver(apps) ==
    /\ sessionManager = "manager"
    /\ apartment = 1
    /\ sessionAddedToken = 0
    /\ sessionRemovedToken = 0
    /\ sessionEventTokens = EmptyMap
    /\ eventCallbacks = EmptyMap
    /\ tsfns = EmptyMap
    /\ osSessions \in SUBSET apps
    /\ osSubs = {}
    /\ mgrSubs = EmptyMap
    /\ mgrPending = {}
    /\ inflight = {}
    /\ callQueue = <<>>
    /\ delivered = <<>>
    /\ cleanups = 0
    /\ callbacksLock = ""
    /\ sessionsLock = ""
    /\ pc = <<>>
    /\ osPc = <<>>
    /\ passes = <<>>
    /\ lastOp = Op("new", <<>>, "", {}, <<>>)

\* The bridge object exists: its methods can be called.
Alive == cleanups = 0

\* A method call on the JavaScript thread.
Method(b, op, arg, err, ret) ==
    /\ Alive
    /\ pc = <<>>
    /\ Commit(b, op, arg, err, ret)
    /\ delivered' = <<>>
    /\ UNCHANGED <<osSessions, inflight, cleanups, threadVars>>

OnCall(name, cb) ==
    Method(On(State, name, cb), "on", <<name, cb>>, OnError(name, cb), {})

\* on without a string and a function: the TypeError of line 362.
OnBadArgs ==
    Method(On(State, "", NotAFunction), "on", <<>>, OnError("", NotAFunction), {})

OffCall(name) ==
    Method(Off(State, name), "off", <<name>>, OffError(name), {})

GetSessionsCall ==
    Method(GetSessions(State), "getSessions", <<>>, "", osSessions)

\* The OS names one of the live sessions as the current one, or none.
GetCurrentSessionCall ==
    \E cur \in SUBSET osSessions :
        /\ Cardinality(cur) = (IF osSessions = {} THEN 0 ELSE 1)
        /\ Method(GetCurrentSession(State), "getCurrentSession", <<>>, "", cur)

GetSessionInfoCall(sessionId) ==
    Method(GetSessionInfo(State, sessionId), "getSessionInfo", <<sessionId>>, "",
           {sessionId} \cap osSessions)

\* The reads with the session objects they return, for every answer of the OS
\* to the property reads.
GetSessionsRead(o) ==
    Method(GetSessions(State), "getSessions", <<>>, "",
           {CreateSessionObject(id, o[id]) : id \in osSessions})
GetCurrentSessionRead(cur, o) ==
    /\ cur \in osSessions
    /\ Method(GetCurrentSession(State), "getCurrentSession", <<>>, "",
              {CreateSessionObject(cur, o)})
GetSessionInfoRead(sessionId, o) ==
    /\ sessionId \in osSessions
    /\ Method(GetSessionInfo(State, sessionId), "getSessionInfo", <<sessionId>>, "",
              {CreateSessionObject(sessionId, o)})

\* ~SMTCMedia runs Cleanup(); Cleanup(env) is the same body.
CleanupCall ==
    /\ cleanups < MaxCleanups
    /\ pc = <<>>
    /\ Commit(Cleanup(State), "Cleanup", <<>>, "", {})
    /\ cleanups' = cleanups + 1
    /\ delivered' = <<>>
    /\ UNCHANGED <<osSessions, inflight, threadVars>>

\* OS: a session starts or ends; every SessionsChanged delegate is notified.
OSSessionsChange(app) ==
    LET live == IF app \in osSessions THEN osSessions \ {app}
                ELSE osSessions \cup {app}
    IN /\ osSessions' = live
       /\ osSubs' = {x \in osSubs : x.app \in live}
       /\ mgrPending' = mgrPending \cup DOMAIN mgrSubs
       /\ lastOp' = Idle
       /\ delivered' = <<>>
       /\ UNCHANGED <<sessionManager, apartment, sessionAddedToken,
                      sessionRemovedToken, sessionEventTokens, eventCallbacks, tsfns,
                      mgrSubs, inflight, callQueue, cleanups, threadVars>>

\* Notifications with a handler still running or a call still queued.
Outstanding == {e.n : e \in inflight} \cup {c.n : c \in Range(callQueue)}
CanNotify == Cardinality(Outstanding) < MaxNotifs
NextNotif == FreshToken(Outstanding)

\* OS thread: the SessionsChanged lambda runs for a notified delegate.
SessionsChangedHandler(tok) ==
    /\ tok \in mgrPending
    /\ tok \in DOMAIN mgrSubs
    /\ CanNotify
    /\ callbacksLock = "" /\ sessionsLock = ""
    /\ Commit([SessionsChangedPass(State, tok, NextNotif)
                   EXCEPT !.mgrPending = @ \ {tok}],
              "SessionsChanged", mgrSubs[tok], "", osSessions)
    /\ delivered' = <<>>
    /\ UNCHANGED <<osSessions, inflight, cleanups, threadVars>>

\* OS thread(s): a session raises one of its events; each delegate registered on
\* it enters InvokeCallback and fetches the callback of its event name.
SessionEventHandler(app, name) ==
    LET dels == {x \in osSubs : x.app = app /\ x.name = name}
        h == GetEventCallback(State, name)
    IN /\ dels # {}
       /\ CanNotify
       /\ callbacksLock = ""
       /\ inflight' = IF h = 0 THEN inflight
                      ELSE inflight \cup
                           {[tok |-> x.tok, h |-> h, name |-> name, app |-> app,
                             n |-> NextNotif] : x \in dels}
       /\ lastOp' = Op("SessionEvent", <<app, name>>, "", {h} \ {0}, <<>>)
       /\ delivered' = <<>>
       /\ UNCHANGED <<sessionManager, apartment, sessionAddedToken,
                      sessionRemovedToken, sessionEventTokens, eventCallbacks, tsfns,
                      osSessions, osSubs, mgrSubs, mgrPending, callQueue, cleanups,
                      threadVars>>

\* OS thread: the second half of InvokeCallback, tsfn.NonBlockingCall.  On a
\* handle already released the call is queued if the function is not yet
\* finalized and is lost otherwise.
NonBlockingCall(e) ==
    /\ e \in inflight
    /\ inflight' = inflight \ {e}
    /\ \/ /\ callQueue' = Append(callQueue, [h |-> e.h, name |-> e.name,
                                             app |-> e.app, n |-> e.n])
          /\ lastOp' = Op("NonBlockingCall", <<>>,
                          IF tsfns[<<e.name, e.h>>].released THEN "released" ELSE "",
                          {}, <<>>)
       \/ /\ tsfns[<<e.name, e.h>>].released
          /\ callQueue' = callQueue
          /\ lastOp' = Op("NonBlockingCall", <<>>, "lost", {}, <<>>)
    /\ tsfns' = Finalize(tsfns, callQueue', inflight')
    /\ UNCHANGED <<sessionManager, apartment, sessionAddedToken, sessionRemovedToken,
                   sessionEventTokens, eventCallbacks, osSessions, osSubs,
                   mgrSubs, mgrPending, delivered, cleanups, threadVars>>

\* JavaScript thread: the queued lambda runs jsCallback.Call({appId}).  Calls of
\* one thread-safe function run in the order queued; a function released with
\* calls still queued runs them before it is finalized.
CallJs(i) ==
    /\ i \in DOMAIN callQueue
    /\ pc = <<>>
    /\ \A j \in 1..(i - 1) : callQueue[j].h # callQueue[i].h
                             \/ callQueue[j].name # callQueue[i].name
    /\ LET c == callQueue[i]
           fn == tsfns[<<c.name, c.h>>]
       IN /\ delivered' = Append(delivered,
                [cb |-> fn.cb, name |-> c.name, app |-> c.app, n |-> c.n,
                 released |-> fn.released, by |-> fn.by, torn |-> cleanups > 0])
          /\ callQueue' = [k \in 1..(Len(callQueue) - 1) |->
                              IF k < i THEN callQueue[k] ELSE callQueue[k + 1]]
          /\ lastOp' = Op("CallJs", <<c.name, fn.cb>>, "", {}, <<>>)
    /\ tsfns' = Finalize(tsfns, callQueue', inflight)
    /\ UNCHANGED <<sessionManager, apartment, sessionAddedToken, sessionRemovedToken,
                   sessionEventTokens, eventCallbacks, osSessions, osSubs,
                   mgrSubs, mgrPending, inflight, cleanups, threadVars>>

\* OS thread(s): a session raises one of its events and every delegate registered
\* on it runs InvokeCallback to its end before anything else happens.
RECURSIVE InvokeTimes(_, _, _, _, _)
InvokeTimes(b, k, name, app, n) ==
    IF k = 0 THEN b ELSE InvokeTimes(InvokeCallback(b, name, app, n), k - 1, name, app, n)
SessionEventInvoke(app, name) ==
    LET dels == {x \in osSubs : x.app = app /\ x.name = name}
    IN /\ dels # {}
       /\ Cardinality(Outstanding) < MaxQueued
       /\ callbacksLock = ""
       /\ Commit(InvokeTimes(State, Cardinality(dels), name, app, NextNotif),
                 "SessionEvent", <<app, name>>, "", {})
       /\ delivered' = <<>>
       /\ UNCHANGED <<osSessions, inflight, cleanups, threadVars>>

\* OS thread: the SessionsChanged lambda when session.SourceAppUserModelId() of
\* line 415 throws for the k-th enumerated session: the added loop has handled
\* the sessions before it, and control goes to the catch of line 442.
SessionsChangedThrows(tok, k) ==
    /\ tok \in mgrPending
    /\ tok \in DOMAIN mgrSubs
    /\ sessionManager # "null"
    /\ CanNotify
    /\ callbacksLock = "" /\ sessionsLock = ""
    /\ k \in 1..Len(Enumerate(osSessions))
    /\ Commit([AddedLoop(State, SubSeq(Enumerate(osSessions), 1, k - 1),
                         mgrSubs[tok], NextNotif)
                   EXCEPT !.mgrPending = @ \ {tok}],
              "SessionsChanged", mgrSubs[tok], "thrown", osSessions)
    /\ delivered' = <<>>
    /\ UNCHANGED <<osSessions, inflight, cleanups, threadVars>>

\* What a step told the JavaScript side: the calls it queued.
Reported(trail) ==
    {<<trail[i].name, trail[i].app>> : i \in {j \in DOMAIN trail : trail[j].ev = "invoke"}}

\* OS thread: the SessionsChanged lambda up to the end of the removed loop.  The
\* lambda takes no lock of its own, so a second run can start here before the
\* first has stored its list.
PassReact(tok) ==
    /\ tok \in mgrPending
    /\ tok \in DOMAIN mgrSubs
    /\ sessionManager # "null"
    /\ CanNotify
    /\ Len(passes) < MaxPasses
    /\ callbacksLock = "" /\ sessionsLock = ""
    /\ LET b == SessionsChangedReact(State, tok, NextNotif)
       IN /\ Commit([b EXCEPT !.mgrPending = @ \ {tok}],
                    "SessionsChanged", mgrSubs[tok], "", osSessions)
          /\ passes' = Append(passes, [tok |-> tok, cur |-> Enumerate(osSessions),
                                       told |-> Reported(b.trail)])
    /\ delivered' = <<>>
    /\ UNCHANGED <<osSessions, inflight, cleanups, callbacksLock, sessionsLock, pc,
                   osPc>>

\* OS thread: line 441, previousSessionIds = currentSessionIds, of a run.
PassStore(i) ==
    /\ i \in DOMAIN passes
    /\ mgrSubs' = IF passes[i].tok \in DOMAIN mgrSubs
                  THEN [mgrSubs EXCEPT ![passes[i].tok] = passes[i].cur]
                  ELSE mgrSubs
    /\ passes' = [k \in 1..(Len(passes) - 1) |->
                      IF k < i THEN passes[k] ELSE passes[k + 1]]
    /\ lastOp' = Op("store", mgrSubs'[passes[i].tok], "", {}, <<>>)
    /\ UNCHANGED <<sessionManager, apartment, sessionAddedToken, sessionRemovedToken,
                   sessionEventTokens, eventCallbacks, tsfns, osSessions, osSubs,
                   mgrPending, inflight, callQueue, delivered, cleanups,
                   callbacksLock, sessionsLock, pc, osPc>>

\* ------------------------------------------------------------ methods, step by step
\* The JavaScript thread inside on, off or Cleanup: pc lists the instructions
\* still to run.  A step runs the first one; taking a lock waits until it is
\* free.  The handlers on the OS threads run between any two steps.
Ins(i, name, arg, h, who) ==
    [i |-> i, name |-> name, arg |-> arg, h |-> h, who |-> who]
Lock(l) == Ins("lock", l, <<>>, 0, "")
Unlock(l) == Ins("unlock", l, <<>>, 0, "")

\* ReleaseOutside with the unlock and the lock around Release dropped.
ReleaseInside(name, h, who) == <<Ins("release", name, <<>>, h, who)>>

\* lock.unlock(); tsfn.Release(); lock.lock();
ReleaseOutside(name, h, who) ==
    <<Unlock("callbacksLock"), Ins("release", name, <<>>, h, who),
      Lock("callbacksLock")>>

\* RegisterSessionEvents: the lock_guard of line 589 covers the rest of the body.
RseProgram(app) ==
    <<Lock("sessionsLock"), Ins("rse", app, <<>>, 0, ""), Unlock("sessionsLock")>>
RECURSIVE RseEach(_)
RseEach(sessions) ==
    IF sessions = <<>> THEN <<>>
    ELSE RseProgram(Head(sessions)) \o RseEach(Tail(sessions))

\* On with a string and a function: RegisterEventListener, then line 378 on.
OnProgram(name, cb) ==
    <<Lock("callbacksLock"), Ins("find", name, <<>>, 0, "on"),
      Ins("store", name, <<cb>>, 0, "on"), Unlock("callbacksLock"),
      Ins("sessions", name, <<>>, 0, "on")>>

\* Off with a string.
OffProgram(name) ==
    <<Lock("callbacksLock"), Ins("erase", name, <<>>, 0, "off"),
      Ins("manager", name, <<>>, 0, "off"), Ins("any", name, <<>>, 0, "off")>>

\* The loop over eventCallbacks and eventCallbacks.clear(), under callbacksLock.
ReleaseLoopProgram(who) ==
    <<Lock("callbacksLock"), Ins("loop", "", NameOrder, 0, who),
      Unlock("callbacksLock")>>

UaeProgram ==
    <<Ins("tokens", "", <<>>, 0, "unregisterall"), Lock("sessionsLock"),
      Ins("clear", "", <<>>, 0, "unregisterall")>>
    \o ReleaseLoopProgram("unregisterall") \o <<Unlock("sessionsLock")>>

CleanupProgram ==
    ReleaseLoopProgram("cleanup") \o UaeProgram
    \o <<Ins("end", "", <<>>, 0, "cleanup")>>

\* UnlockBeforeUae with the lock.unlock() of line 565 dropped.
UnlockBeforeUae_Dropped == <<>>

\* Off, line 565: lock.unlock() before UnregisterAllEvents().
UnlockBeforeUae == <<Unlock("callbacksLock")>>

\* GetSessions: enumerate, then RegisterSessionEvents for each session.
GetSessionsProgram == <<Ins("list", "", <<>>, 0, "getSessions")>>

\* InvokeCallback(name, app) for notification n: GetEventCallback under its
\* lock_guard, then NonBlockingCall.
InvokeProgram(name, app, n) ==
    <<Lock("callbacksLock"), Ins("get", name, <<app, n>>, 0, "os")>>

\* UnregisterSessionEvents(app).
UnregisterProgram(app) ==
    <<Lock("sessionsLock"), Ins("unregister", app, <<>>, 0, "os"),
      Unlock("sessionsLock")>>

\* The two loops of the SessionsChanged lambda over the given sessions.
RECURSIVE AddedProgram(_, _)
AddedProgram(added, n) ==
    IF added = <<>> THEN <<>>
    ELSE RseProgram(Head(added)) \o InvokeProgram("sessionadded", Head(added), n)
         \o AddedProgram(Tail(added), n)
RECURSIVE RemovedProgram(_, _)
RemovedProgram(removed, n) ==
    IF removed = <<>> THEN <<>>
    ELSE InvokeProgram("sessionremoved", Head(removed), n)
         \o UnregisterProgram(Head(removed)) \o RemovedProgram(Tail(removed), n)

\* lock.unlock(); sessionManager.SessionsChanged(token); lock.lock(); token = {};
OffUnsubscribeProgram(b) ==
    LET one(field) == <<Unlock("callbacksLock"),
                        Ins("unsubscribe", field, <<>>, 0, "off"),
                        Lock("callbacksLock")>>
    IN (IF b.sessionAddedToken # 0 THEN one("sessionAddedToken") ELSE <<>>)
       \o (IF b.sessionRemovedToken # 0 THEN one("sessionRemovedToken") ELSE <<>>)

\* Lines 312-325 of UnregisterAllEvents.
UaeManager(b) == IF b.sessionManager # "null" THEN OffUnsubscribeManager(b) ELSE b

\* One instruction: the state it leaves and the instructions it puts in front
\* of the rest of the method.
Exec(b, ins) ==
    LET name == ins.name
        slot == IF name \in DOMAIN b.eventCallbacks THEN b.eventCallbacks[name]
                ELSE [tsfn |-> 0, active |-> FALSE]
        dead == [tsfn |-> 0, active |-> FALSE]
        Is(b1, push) == [b |-> b1, push |-> push]
    IN CASE ins.i = "find" ->
              IF slot.active /\ slot.tsfn # 0
              THEN Is([b EXCEPT !.eventCallbacks[name] = dead],
                      ReleaseOutside(name, slot.tsfn, ins.who))
              ELSE Is(b, <<>>)
         [] ins.i = "release" -> Is(Release(b, name, ins.h, ins.who), <<>>)
         [] ins.i = "store" ->
              LET h == FreshToken({k[2] : k \in {j \in DOMAIN b.tsfns : j[1] = name}})
                  fn == [cb |-> ins.arg[1], released |-> FALSE, by |-> "none"]
              IN Is(NoteCb([b EXCEPT !.tsfns = Put(@, <<name, h>>, fn),
                                     !.eventCallbacks =
                                         Put(@, name, [tsfn |-> h, active |-> TRUE])],
                           "install", name, h, ins.arg[1]),
                    <<>>)
         [] ins.i = "sessions" ->
              LET sessions == Enumerate(b.osSessions)
                  b1 == Note(b, "os_enumerate", "", "", 0)
              IN IF name \in ManagerKinds
                 THEN IF b.sessionAddedToken = 0 /\ b.sessionRemovedToken = 0
                      THEN Is(b1, RseEach(sessions)
                                  \o <<Ins("subscribe", name, sessions, 0, "on")>>)
                      ELSE Is(b1, <<>>)
                 ELSE IF name \in SessionKinds THEN Is(b1, RseEach(sessions))
                 ELSE Is(b1, <<>>)
         [] ins.i = "rse" -> Is(RegisterSessionEvents(b, name), <<>>)
         [] ins.i = "subscribe" -> Is(SubscribeManager(b, ins.arg), <<>>)
         [] ins.i = "erase" ->
              IF slot.active
              THEN Is([b EXCEPT !.eventCallbacks = Erase(@, name)],
                      ReleaseOutside(name, slot.tsfn, ins.who))
              ELSE Is(b, <<>>)
         [] ins.i = "manager" ->
              IF name \in ManagerKinds /\ ~HasManagerListener(b)
              THEN Is(b, OffUnsubscribeProgram(b))
              ELSE Is(b, <<>>)
         [] ins.i = "unsubscribe" ->
              IF name = "sessionAddedToken"
              THEN Is([UnsubscribeManager(b, b.sessionAddedToken)
                           EXCEPT !.sessionAddedToken = 0], <<>>)
              ELSE Is([UnsubscribeManager(b, b.sessionRemovedToken)
                           EXCEPT !.sessionRemovedToken = 0], <<>>)
         [] ins.i = "any" ->
              IF HasAnyEventListeners(b)
              THEN Is(b, <<Unlock("callbacksLock")>>)
              ELSE Is(b, UnlockBeforeUae \o UaeProgram)
         [] ins.i = "tokens" -> Is(UaeManager(b), <<>>)
         [] ins.i = "clear" ->
              Is(Note([b EXCEPT !.sessionEventTokens = EmptyMap],
                      "clear_session_tokens", "", "", 0), <<>>)
         [] ins.i = "loop" ->
              LET act == SelectSeq(ins.arg,
                                   LAMBDA k : IsActive(b, k) /\ b.eventCallbacks[k].tsfn # 0)
              IN IF act = <<>> THEN Is([b EXCEPT !.eventCallbacks = EmptyMap], <<>>)
                 ELSE Is([b EXCEPT !.eventCallbacks[Head(act)] = dead],
                         ReleaseOutside(Head(act), b.eventCallbacks[Head(act)].tsfn,
                                        ins.who)
                         \o <<Ins("loop", "", Tail(act), 0, ins.who)>>)
         [] ins.i = "end" ->
              Is(Note([(IF b.sessionManager # "null"
                        THEN Note([b EXCEPT !.sessionManager = "null"],
                                  "release_manager", "", "", 0)
                        ELSE b) EXCEPT !.apartment = @ - 1],
                      "uninit_apartment", "", "", 0), <<>>)
         [] ins.i = "list" ->
              Is(Note(b, "os_enumerate", "", "", 0), RseEach(Enumerate(b.osSessions)))
         [] ins.i = "get" ->
              LET h == GetEventCallback(b, name)
              IN Is(b, <<Unlock("callbacksLock")>>
                       \o (IF h = 0 THEN <<>>
                           ELSE <<Ins("call", name, ins.arg, h, ins.who)>>))
         [] ins.i = "changed" ->
              IF b.sessionManager = "null" \/ ins.h \notin DOMAIN b.mgrSubs
              THEN Is(b, <<>>)
              ELSE LET previousSessionIds == b.mgrSubs[ins.h]
                       currentSessionIds == Enumerate(b.osSessions)
                       added == SelectSeq(currentSessionIds,
                                          LAMBDA a : IsAdded(previousSessionIds, a))
                       removed == SelectSeq(previousSessionIds,
                                            LAMBDA a : IsRemoved(currentSessionIds, a))
                   IN Is(Note(b, "os_enumerate", "", "", 0),
                         AddedProgram(added, ins.arg[1])
                         \o RemovedProgram(removed, ins.arg[1])
                         \o <<Ins("keep", "", currentSessionIds, ins.h, ins.who)>>)
         [] ins.i = "unregister" -> Is(UnregisterSessionEvents(b, name), <<>>)
         [] ins.i = "keep" ->
              IF ins.h \in DOMAIN b.mgrSubs
              THEN Is([b EXCEPT !.mgrSubs[ins.h] = ins.arg], <<>>)
              ELSE Is(b, <<>>)

\* The JavaScript thread enters a method.
Begin(op, arg, program) ==
    /\ pc = <<>>
    /\ pc' = program
    /\ lastOp' = Op("call", <<op>> \o arg, "", {}, <<>>)
    /\ delivered' = <<>>
    /\ UNCHANGED <<sessionManager, apartment, sessionAddedToken, sessionRemovedToken,
                   sessionEventTokens, eventCallbacks, tsfns, osSessions, osSubs,
                   mgrSubs, mgrPending, inflight, callQueue, cleanups,
                   callbacksLock, sessionsLock, osPc, passes>>
OnBegin(name, cb) == Alive /\ Begin("on", <<name, cb>>, OnProgram(name, cb))
OffBegin(name) == Alive /\ Begin("off", <<name>>, OffProgram(name))
CleanupBegin == cleanups < MaxCleanups /\ Begin("Cleanup", <<>>, CleanupProgram)
GetSessionsBegin == Alive /\ Begin("getSessions", <<>>, GetSessionsProgram)

\* The JavaScript thread takes or gives up a lock.
Holder(l) == IF l = "callbacksLock" THEN callbacksLock ELSE sessionsLock
SetHolder(l, who) ==
    IF l = "callbacksLock"
    THEN callbacksLock' = who /\ UNCHANGED sessionsLock
    ELSE sessionsLock' = who /\ UNCHANGED callbacksLock
JsLock ==
    /\ pc # <<>> /\ Head(pc).i = "lock"
    /\ Holder(Head(pc).name) = ""
    /\ SetHolder(Head(pc).name, "js")
    /\ pc' = Tail(pc)
    /\ lastOp' = Op("lock", <<Head(pc).name>>, "", {}, <<>>)
    /\ UNCHANGED <<sessionManager, apartment, sessionAddedToken, sessionRemovedToken,
                   sessionEventTokens, eventCallbacks, tsfns, osSessions, osSubs,
                   mgrSubs, mgrPending, inflight, callQueue, delivered, cleanups,
                   osPc, passes>>
JsUnlock ==
    /\ pc # <<>> /\ Head(pc).i = "unlock"
    /\ SetHolder(Head(pc).name, "")
    /\ pc' = Tail(pc)
    /\ lastOp' = Op("unlock", <<Head(pc).name>>, "", {}, <<>>)
    /\ UNCHANGED <<sessionManager, apartment, sessionAddedToken, sessionRemovedToken,
                   sessionEventTokens, eventCallbacks, tsfns, osSessions, osSubs,
                   mgrSubs, mgrPending, inflight, callQueue, delivered, cleanups,
                   osPc, passes>>

\* The JavaScript thread runs the next instruction of its method.
JsExec ==
    /\ pc # <<>> /\ Head(pc).i \notin {"lock", "unlock"}
    /\ LET r == Exec(State, Head(pc))
       IN /\ Commit(r.b, Head(pc).i, <<Head(pc).name, Head(pc).who>>, "", {})
          /\ pc' = r.push \o Tail(pc)
    /\ cleanups' = IF Head(pc).i = "end" THEN cleanups + 1 ELSE cleanups
    /\ UNCHANGED <<osSessions, inflight, delivered, callbacksLock, sessionsLock,
                   osPc, passes>>

\* An OS thread enters a handler.
OsBegin(op, arg, program) ==
    /\ osPc = <<>>
    /\ CanNotify
    /\ osPc' = program
    /\ lastOp' = Op("raise", <<op>> \o arg, "", {}, <<>>)
    /\ delivered' = <<>>
    /\ UNCHANGED <<sessionManager, apartment, sessionAddedToken, sessionRemovedToken,
                   sessionEventTokens, eventCallbacks, tsfns, osSessions, osSubs,
                   mgrSubs, inflight, callQueue, cleanups,
                   callbacksLock, sessionsLock, pc, passes>>
\* The SessionsChanged lambda starts for a notified delegate.
OsSessionsChangedBegin(tok) ==
    /\ tok \in mgrPending
    /\ tok \in DOMAIN mgrSubs
    /\ mgrPending' = mgrPending \ {tok}
    /\ OsBegin("SessionsChanged", <<>>,
               <<Ins("changed", "", <<NextNotif>>, tok, "os")>>)
\* A delegate registered on an event of a session starts InvokeCallback.
OsSessionEventBegin(app, name) ==
    /\ \E x \in osSubs : x.app = app /\ x.name = name
    /\ UNCHANGED mgrPending
    /\ OsBegin("SessionEvent", <<app, name>>, InvokeProgram(name, app, NextNotif))

\* The OS thread takes or gives up a lock.
OsLock ==
    /\ osPc # <<>> /\ Head(osPc).i = "lock"
    /\ Holder(Head(osPc).name) = ""
    /\ SetHolder(Head(osPc).name, "os")
    /\ osPc' = Tail(osPc)
    /\ lastOp' = Op("lock", <<Head(osPc).name, "os">>, "", {}, <<>>)
    /\ UNCHANGED <<sessionManager, apartment, sessionAddedToken, sessionRemovedToken,
                   sessionEventTokens, eventCallbacks, tsfns, osSessions, osSubs,
                   mgrSubs, mgrPending, inflight, callQueue, delivered, cleanups,
                   pc, passes>>
OsUnlock ==
    /\ osPc # <<>> /\ Head(osPc).i = "unlock"
    /\ SetHolder(Head(osPc).name, "")
    /\ osPc' = Tail(osPc)
    /\ lastOp' = Op("unlock", <<Head(osPc).name, "os">>, "", {}, <<>>)
    /\ UNCHANGED <<sessionManager, apartment, sessionAddedToken, sessionRemovedToken,
                   sessionEventTokens, eventCallbacks, tsfns, osSessions, osSubs,
                   mgrSubs, mgrPending, inflight, callQueue, delivered, cleanups,
                   pc, passes>>

\* The OS thread runs the next instruction of its handler.
OsExec ==
    /\ osPc # <<>> /\ Head(osPc).i \notin {"lock", "unlock", "call"}
    /\ LET r == Exec(State, Head(osPc))
       IN /\ Commit(r.b, Head(osPc).i, <<Head(osPc).name, Head(osPc).who>>, "", {})
          /\ osPc' = r.push \o Tail(osPc)
    /\ UNCHANGED <<osSessions, inflight, delivered, cleanups, callbacksLock,
                   sessionsLock, pc, passes>>

\* The OS thread at tsfn.NonBlockingCall: on a handle already released the call
\* is queued if the function is not yet finalized and is lost otherwise.
OsCall ==
    /\ osPc # <<>> /\ Head(osPc).i = "call"
    /\ LET c == [h |-> Head(osPc).h, name |-> Head(osPc).name,
                 app |-> Head(osPc).arg[1], n |-> Head(osPc).arg[2]]
           gone == <<c.name, c.h>> \notin DOMAIN tsfns
           released == IF gone THEN TRUE ELSE tsfns[<<c.name, c.h>>].released
       IN \/ /\ ~gone
             /\ callQueue' = Append(callQueue, c)
             /\ lastOp' = Op("NonBlockingCall", <<>>,
                             IF released THEN "released" ELSE "", {}, <<>>)
          \/ /\ released
             /\ callQueue' = callQueue
             /\ lastOp' = Op("NonBlockingCall", <<>>, "lost", {}, <<>>)
    /\ osPc' = Tail(osPc)
    /\ tsfns' = Finalize(tsfns, callQueue', inflight)
    /\ UNCHANGED <<sessionManager, apartment, sessionAddedToken, sessionRemovedToken,
                   sessionEventTokens, eventCallbacks, osSessions, osSubs,
                   mgrSubs, mgrPending, inflight, delivered, cleanups,
                   callbacksLock, sessionsLock, pc, passes>>

\* ------------------------------------------------------------ specifications
\* One session identity; a session-list event name, a per-session event name
\* and a name that is no event kind; both callbacks.
OneSession == {"AppA"}
CallerNames == {"sessionadded", "playbackstatechanged", "bogus"}

Init == InitOver(OneSession)

Next ==
    \/ \E name \in CallerNames, cb \in JsCallbacks : OnCall(name, cb)
    \/ OnBadArgs
    \/ \E name \in CallerNames : OffCall(name)
    \/ GetSessionsCall
    \/ GetCurrentSessionCall
    \/ \E sessionId \in OneSession : GetSessionInfoCall(sessionId)
    \/ CleanupCall
    \/ \E app \in OneSession : OSSessionsChange(app)
    \/ \E tok \in mgrPending : SessionsChangedHandler(tok)
    \/ \E app \in OneSession, name \in SessionKinds : SessionEventHandler(app, name)
    \/ \E e \in inflight : NonBlockingCall(e)
    \/ \E i \in DOMAIN callQueue : CallJs(i)

Spec == Init /\ [][Next]_vars

\* Two session identities, the two session-list event names, one callback.
InitDiff == InitOver(Sessions)

NextDiff ==
    \/ \E name \in ManagerKinds : OnCall(name, "cbA")
    \/ \E name \in ManagerKinds : OffCall(name)
    \/ GetSessionsCall
    \/ \E app \in Sessions : OSSessionsChange(app)
    \/ \E tok \in mgrPending : SessionsChangedHandler(tok)
    \/ \E i \in DOMAIN callQueue : CallJs(i)

SpecDiff == InitDiff /\ [][NextDiff]_vars

\* The three reads under every answer of the OS to the property reads; two
\* session identities.
InitRecord == InitOver(Sessions)

NextRecord ==
    \/ \E o \in [osSessions -> Outcomes] : GetSessionsRead(o)
    \/ \E cur \in Sessions, o \in Outcomes : GetCurrentSessionRead(cur, o)
    \/ \E sessionId \in Sessions, o \in Outcomes : GetSessionInfoRead(sessionId, o)
    \/ \E app \in Sessions : OSSessionsChange(app)

SpecRecord == InitRecord /\ [][NextRecord]_vars

\* One session identity and two per-session event names, one callback; the
\* handlers of the session's events run one after the other.
OrderNames == {"playbackstatechanged", "timelinepropertieschanged"}
InitOrder == InitOver(OneSession)

NextOrder ==
    \/ \E name \in OrderNames : OnCall(name, "cbA")
    \/ \E name \in OrderNames : OffCall(name)
    \/ \E app \in OneSession : OSSessionsChange(app)
    \/ \E app \in OneSession, name \in OrderNames : SessionEventInvoke(app, name)
    \/ \E i \in DOMAIN callQueue : CallJs(i)

SpecOrder == InitOrder /\ [][NextOrder]_vars

\* on, off and Cleanup run instruction by instruction on the JavaScript thread,
\* with the handlers of the OS threads in between; one session identity, a
\* session-list and a per-session event name, one callback.
LockNames == {"sessionadded", "playbackstatechanged"}
InitLocks == InitOver(OneSession)

NextLocks ==
    \/ \E name \in LockNames : OnBegin(name, "cbA")
    \/ \E name \in LockNames : OffBegin(name)
    \/ CleanupBegin
    \/ JsLock
    \/ JsUnlock
    \/ JsExec
    \/ \E app \in OneSession : OSSessionsChange(app)
    \/ \E tok \in mgrPending : SessionsChangedHandler(tok)
    \/ \E app \in OneSession, name \in SessionKinds : SessionEventHandler(app, name)
    \/ \E e \in inflight : NonBlockingCall(e)
    \/ \E i \in DOMAIN callQueue : CallJs(i)

SpecLocks == InitLocks /\ [][NextLocks]_vars

\* The SessionsChanged lambda in two steps, so that runs overlap; two session
\* identities, one callback on sessionadded.
InitPasses == InitOver(Sessions)

NextPasses ==
    \/ OnCall("sessionadded", "cbA")
    \/ \E app \in Sessions : OSSessionsChange(app)
    \/ \E tok \in mgrPending : PassReact(tok)
    \/ \E i \in DOMAIN passes : PassStore(i)
    \/ \E i \in DOMAIN callQueue : CallJs(i)

SpecPasses == InitPasses /\ [][NextPasses]_vars

\* The SessionsChanged lambda with and without an error part-way; two session
\* identities, one callback on sessionadded.
InitThrows == InitOver(Sessions)

NextThrows ==
    \/ OnCall("sessionadded", "cbA")
    \/ \E app \in Sessions : OSSessionsChange(app)
    \/ \E tok \in mgrPending : SessionsChangedHandler(tok)
    \/ \E tok \in mgrPending, k \in 1..Cardinality(Sessions) :
           SessionsChangedThrows(tok, k)
    \/ \E i \in DOMAIN callQueue : CallJs(i)

SpecThrows == InitThrows /\ [][NextThrows]_vars

\* The methods on the JavaScript thread and the handlers on an OS thread, both
\* instruction by instruction; one session identity, a session-list and a
\* per-session event name, one callback.
InitNest == InitOver(OneSession)

NextNest ==
    \/ \E name \in LockNames : OnBegin(name, "cbA")
    \/ \E name \in LockNames : OffBegin(name)
    \/ GetSessionsBegin
    \/ CleanupBegin
    \/ JsLock
    \/ JsUnlock
    \/ JsExec
    \/ \E app \in OneSession : OSSessionsChange(app)
    \/ \E tok \in mgrPending : OsSessionsChangedBegin(tok)
    \/ \E app \in OneSession, name \in LockNames \cap SessionKinds :
           OsSessionEventBegin(app, name)
    \/ OsLock
    \/ OsUnlock
    \/ OsExec
    \/ OsCall
    \/ \E i \in DOMAIN callQueue : CallJs(i)

SpecNest == InitNest /\ [][NextNest]_vars

\* ------------------------------------------------------------ properties
\* Calls of InvokeCallback(name, app) that the last step queued.
Invokes(name, app) ==
    Cardinality({i \in DOMAIN lastOp.trail :
                    /\ lastOp.trail[i].ev = "invoke"
                    /\ lastOp.trail[i].name = name
                    /\ lastOp.trail[i].app = app})
\* Delegates of the bridge registered on event k of session app.
SubCount(subs, app, k) == Cardinality({x \in subs : x.app = app /\ x.name = k})
\* The last step performed effect ev on session app.
Did(op, ev, app) ==
    \E i \in DOMAIN op.trail : op.trail[i].ev = ev /\ op.trail[i].app = app

\* C1: once off(k) has returned, the handler that was registered for k is not
\* executed any more, not even for a call queued before off: no JavaScript
\* execution happens on a thread-safe function that off has released.
C1_NoDeliveryAfterOff ==
    \A i \in DOMAIN delivered :
        ~(delivered[i].released /\ delivered[i].by = "off")

\* The last step was on(k, cbB), and it released the function of cbA.
C2_Superseded(k) ==
    /\ lastOp.op = "on" /\ lastOp.err = "" /\ lastOp.arg = <<k, "cbB">>
    /\ \E i \in DOMAIN lastOp.trail :
           /\ lastOp.trail[i].ev = "release"
           /\ lastOp.trail[i].name = k
           /\ lastOp.trail[i].cb = "cbA"
\* C2: right after on(k, cbA) and then on(k, cbB), one OS notification of kind
\* k from a live session enters InvokeCallback for cbB exactly once, so cbB is
\* executed exactly once.
C2_OneNotificationOneCall ==
    [][\A k \in SessionKinds, app \in Sessions :
          (C2_Superseded(k) /\ lastOp'.op = "SessionEvent" /\ lastOp'.arg = <<app, k>>)
              => Cardinality(inflight' \ inflight) = 1]_vars

\* The last step was a SessionsChanged pass, with both callbacks live.
C3_Pass ==
    /\ lastOp.op = "SessionsChanged"
    /\ IsActive(State, "sessionadded") /\ IsActive(State, "sessionremoved")
\* C3: a SessionsChanged pass with previous list P and enumeration C, with
\* sessionadded and sessionremoved both live, invokes sessionadded exactly once
\* for each identity of C \ P, sessionremoved exactly once for each identity of
\* P \ C, and nothing else.
C3_DiffExact ==
    C3_Pass =>
        LET P == Range(lastOp.arg)
            C == lastOp.ret
        IN \A app \in Sessions :
               /\ Invokes("sessionadded", app) = (IF app \in C \ P THEN 1 ELSE 0)
               /\ Invokes("sessionremoved", app) = (IF app \in P \ C THEN 1 ELSE 0)
\* One pass that sees an identity added and another one removed.
C3_Witness ==
    /\ C3_Pass
    /\ lastOp.ret \ Range(lastOp.arg) # {}
    /\ Range(lastOp.arg) \ lastOp.ret # {}

\* C4: on and off both fail with an error when the event name is none of the
\* five kinds.
C4_UnknownKindFails ==
    (lastOp.op \in {"on", "off"} /\ lastOp.arg # <<>> /\ lastOp.arg[1] \notin EventKinds)
        => lastOp.err # ""

\* C5: a second run of Cleanup changes nothing: no handle is released, no OS
\* unsubscribe is issued, and neither the session manager nor the apartment is
\* released again.
C5_SecondCleanupNoop ==
    [][(cleanups >= 1 /\ cleanups' = cleanups + 1)
          => /\ UNCHANGED <<sessionManager, apartment, sessionAddedToken,
                            sessionRemovedToken, sessionEventTokens, eventCallbacks,
                            tsfns, osSubs, mgrSubs>>
             /\ \A i \in DOMAIN lastOp'.trail :
                    lastOp'.trail[i].ev \notin {"release", "manager_unsubscribe",
                                                "os_unsubscribe", "release_manager",
                                                "uninit_apartment"}]_vars

\* C6: after Cleanup has returned no JavaScript handler is executed and no OS
\* subscription of the bridge, on the manager or on a session, is left.
C6_NothingAfterTeardown ==
    cleanups > 0 =>
        /\ osSubs = {}
        /\ DOMAIN mgrSubs = {}
        /\ \A i \in DOMAIN delivered : ~delivered[i].torn

\* Two RegisterSessionEvents in a row for a live session: getSessions calls
\* RegisterSessionEvents once for every live session.
C7_Twice ==
    lastOp.op = "getSessions" /\ lastOp'.op = "getSessions" /\ osSessions # {}
\* The tracked identities, the number of stored tokens of each and the number
\* of delegates on each event of each session are as after the first call.
C7_Same ==
    /\ DOMAIN sessionEventTokens' = DOMAIN sessionEventTokens
    /\ \A app \in DOMAIN sessionEventTokens :
           /\ Len(sessionEventTokens'[app]) = Len(sessionEventTokens[app])
           /\ \A k \in SessionKinds :
                  SubCount(osSubs', app, k) = SubCount(osSubs, app, k)
C8_ManagerSubscription ==
    /\ Cardinality(DOMAIN mgrSubs) <= 1
    /\ (DOMAIN mgrSubs # {})
           <=> (IsActive(State, "sessionadded") \/ IsActive(State, "sessionremoved"))
\* off of one of the two kinds returned while the other one is live.
C8_Witness ==
    /\ lastOp.op = "off" /\ lastOp.arg[1] \in ManagerKinds
    /\ Did(lastOp, "release", "")
    /\ \E k \in ManagerKinds \ {lastOp.arg[1]} : IsActive(State, k)
    /\ DOMAIN mgrSubs # {}

\* C9: in a SessionsChanged pass the events of an added session are registered
\* before sessionadded is invoked for it, and sessionremoved is invoked for a
\* removed identity before its tokens are unregistered.
C9_Order ==
    lastOp.op = "SessionsChanged" =>
        LET t == lastOp.trail
        IN \A i \in DOMAIN t :
               /\ (t[i].ev = "invoke" /\ t[i].name = "sessionadded")
                      => \E j \in 1..(i - 1) :
                             t[j].ev = "register" /\ t[j].app = t[i].app
               /\ (t[i].ev = "invoke" /\ t[i].name = "sessionremoved")
                      => /\ \E j \in (i + 1)..Len(t) :
                                t[j].ev = "unregister" /\ t[j].app = t[i].app
                         /\ \A j \in 1..(i - 1) :
                                ~(t[j].ev = "unregister" /\ t[j].app = t[i].app)
\* One pass that invokes sessionadded for one identity and sessionremoved for
\* another.
C9_Witness ==
    /\ lastOp.op = "SessionsChanged"
    /\ \E a, r \in Sessions :
           Invokes("sessionadded", a) = 1 /\ Invokes("sessionremoved", r) = 1

\* C10: after getSessions, getCurrentSession or getSessionInfo returns, every
\* session it returned is tracked in sessionEventTokens.
C10_ReadsRegister ==
    lastOp.op \in {"getSessions", "getCurrentSession", "getSessionInfo"}
        => lastOp.ret \subseteq DOMAIN sessionEventTokens

\* The read operations that throw in session object r.
Failed(r) == {k \in ReadKinds : r.reads[k] = "throws"}
\* C11: when exactly one property read of a session fails, the object is still
\* returned with the identity and the other two property groups set, and an
\* error marker stands in place of the failed group only.
C11_OneFailureOneMarker ==
    lastOp.op \in {"getSessions", "getCurrentSession", "getSessionInfo"} =>
        \A r \in lastOp.ret :
            (Cardinality(Failed(r)) = 1 /\ r.reads["mediaProperties"] # "null") =>
                /\ "sourceAppUserModelId" \in r.keys
                /\ \A k \in ReadKinds : k \in r.keys <=> k \notin Failed(r)
                /\ r.keys \cap {"mediaPropertiesError", "error"} # {}

\* The position in the queue of the call that the step just ran.
Ran(d) ==
    CHOOSE i \in DOMAIN callQueue :
        /\ callQueue[i].n = d.n /\ callQueue[i].name = d.name /\ callQueue[i].app = d.app
        /\ \A j \in 1..(i - 1) : callQueue[j].n # d.n \/ callQueue[j].name # d.name

\* C12: the notifications of one session are delivered in the order the OS raised
\* them: when the handler of notification n1 finished InvokeCallback before the
\* handler of n2 started, the JavaScript call for n2 never runs while the call
\* for n1 is still queued.
C12_InOrder ==
    [][lastOp'.op = "CallJs" =>
          LET d == delivered'[Len(delivered')]
          IN \A j \in 1..(Ran(d) - 1) :
                 callQueue[j].app # d.app \/ callQueue[j].n = d.n]_vars

\* The JavaScript thread is inside on(k, ...), between marking the old callback
\* of k dead and releasing it.
Replacing(k) ==
    pc # <<>> /\ Head(pc).i = "release" /\ Head(pc).who = "on" /\ Head(pc).name = k
C13_NotificationSeesLive ==
    \A k \in SessionKinds :
        (Replacing(k) /\ lastOp.op = "SessionEvent" /\ lastOp.arg[2] = k)
            => lastOp.ret # {}
C13_ReleasedAfterStored ==
    \A k \in EventKinds :
        (lastOp.op = "release" /\ lastOp.arg = <<k, "on">>) => IsActive(State, k)

\* C13: on(k, cbB) over a live callback never leaves the slot of k empty: a
\* notification for k that runs during the replacement fetches a live callback,
\* and the old callback is released only once the new one is stored.
C13_SwapNeverEmpty == C13_NotificationSeesLive /\ C13_ReleasedAfterStored

C14_OneAtATime == Len(passes) <= 1
C14_ReportedOnce ==
    \A i, j \in DOMAIN passes :
        (i < j /\ passes[i].tok = passes[j].tok)
            => passes[i].told \cap passes[j].told = {}

\* C14: the runs of the SessionsChanged lambda are serialized: at most one run
\* is between its enumeration and the store of its list, and no two runs report
\* the same arrival or departure of a session.
C14_Serialized == C14_OneAtATime /\ C14_ReportedOnce

\* C15: no thread issues the cross-thread call on a handle on which Release has
\* been performed: every NonBlockingCall of InvokeCallback finds the handle it
\* fetched still unreleased.
C15_NoCallOnReleased ==
    lastOp.op = "NonBlockingCall" => lastOp.err = ""

\* C16: at the end of every run of the SessionsChanged lambda, a run with an
\* error part-way included, the stored previous list is the list the run
\* enumerated.
C16_SnapshotReplaced ==
    lastOp.op = "SessionsChanged" =>
        \A tok \in DOMAIN mgrSubs : mgrSubs[tok] = Enumerate(lastOp.ret)

\* The step leaves none of the registrations whose tokens it dropped from
\* sessionEventTokens in place on a live session.
C17_DroppedAreRevoked ==
    \A app \in DOMAIN sessionEventTokens \ DOMAIN sessionEventTokens' :
        \A x \in osSubs' : ~(x.app = app /\ x.tok \in Range(sessionEventTokens[app]))
\* C17: UnregisterSessionEvents and UnregisterAllEvents revoke at the OS every
\* registration whose token they drop, so that none of them stays on a live
\* session, and UnregisterAllEvents runs only inside the teardown.
C17_UnregisterRevokes ==
    [][/\ C17_DroppedAreRevoked
       /\ Did(lastOp', "clear_session_tokens", "") => lastOp'.op = "Cleanup"]_vars

\* The event kinds on which the registrations stored for app are in place.
StoredKinds(subs, tokens, app) ==
    {x.name : x \in {y \in subs : y.app = app /\ y.tok \in Range(tokens[app])}}
\* C18: RegisterSessionEvents for a session not yet tracked subscribes to exactly
\* the per-session event kinds whose callback is live and stores one token for
\* each of them.
C18_OnlyLiveKinds ==
    [][\A app \in osSessions \ DOMAIN sessionEventTokens :
           (lastOp'.op \in {"on", "getSessions"} /\ Did(lastOp', "register", app))
               => /\ StoredKinds(osSubs', sessionEventTokens', app)
                         = {k \in SessionKinds : k \in DOMAIN eventCallbacks'
                                                  /\ eventCallbacks'[k].active}
                  /\ Len(sessionEventTokens'[app])
                         = Cardinality(StoredKinds(osSubs', sessionEventTokens', app))]_vars

\* The effects that are calls into the OS: enumeration, subscribe, unsubscribe.
OsCalls ==
    {"os_enumerate", "register", "os_unsubscribe", "manager_subscribe",
     "manager_unsubscribe"}
\* C19: no OS call (session enumeration, subscribe, unsubscribe) is made by a
\* thread that holds sessionsLock or callbacksLock.
C19_NoOsCallUnderLock ==
    (\E i \in DOMAIN lastOp.trail : lastOp.trail[i].ev \in OsCalls)
        => callbacksLock = "" /\ sessionsLock = ""

\* C20: every Release of a callback handle, in on, off, UnregisterAllEvents and
\* Cleanup, is performed by a thread that does not hold callbacksLock: the slot
\* is marked dead and the handle moved out with the lock held, and the handle
\* is released after the unlock.
C20_ReleaseOutsideLock ==
    /\ lastOp.op = "release" => callbacksLock # "js"
    /\ lastOp.op \in {"find", "erase", "loop"} => callbacksLock = "js"
    /\ \A j \in DOMAIN pc :
           pc[j].i = "release" =>
               /\ ~(IsActive(State, pc[j].name)
                      /\ eventCallbacks[pc[j].name].tsfn = pc[j].h)
               /\ (j = 1 => callbacksLock # "js")
\* off has just released the handle it moved out of the slot, before it takes
\* callbacksLock again.
C20_Witness ==
    /\ lastOp.op = "release" /\ lastOp.arg[2] = "off"
    /\ pc # <<>> /\ Head(pc).i = "lock" /\ Head(pc).name = "callbacksLock"
    /\ \E i \in DOMAIN lastOp.trail : lastOp.trail[i].ev = "release"

\* The positions in the effects of the last step at which effect ev occurs.
At(ev) == {i \in DOMAIN lastOp.trail : lastOp.trail[i].ev = ev}
\* Every effect a of the last step comes before every effect b of it.
Before(a, b) == \A i \in At(a), j \in At(b) : i < j

\* C21: the teardown drops the per-session tokens and releases the manager-level
\* subscription first, then releases every callback, and releases the session
\* manager handle last.
C21_TeardownOrder ==
    lastOp.op = "Cleanup" =>
        /\ Before("clear_session_tokens", "release")
        /\ Before("manager_unsubscribe", "release")
        /\ Before("release", "release_manager")
        /\ Before("clear_session_tokens", "release_manager")
        /\ Before("manager_unsubscribe", "release_manager")

\* C22: every live session carries at most one delegate of the bridge on each
\* of its three events, so that one notification of the OS enters
\* InvokeCallback at most once.
C22_OneSubscriptionPerKind ==
    \A app \in osSessions, k \in SessionKinds : SubCount(osSubs, app, k) <= 1

\* C23: an on that fails leaves the bridge as it was: the callback table, the
\* thread-safe functions, the stored session tokens and the manager-level
\* subscription are unchanged.
C23_FailedOnChangesNothing ==
    [][(lastOp'.op = "on" /\ lastOp'.err # "")
          => UNCHANGED <<eventCallbacks, tsfns, sessionEventTokens, osSubs, mgrSubs,
                         sessionAddedToken, sessionRemovedToken>>]_vars

\* C25: off(k) leaves the callback of every other event name as it was: the
\* slot holds the same handle, still active, and the handle is not released.
C25_OffKeepsOthers ==
    [][lastOp'.op = "off" =>
          \A k \in DOMAIN eventCallbacks \ {lastOp'.arg[1]} :
              eventCallbacks[k].active =>
                  /\ k \in DOMAIN eventCallbacks'
                  /\ eventCallbacks'[k] = eventCallbacks[k]
                  /\ <<k, eventCallbacks[k].tsfn>> \in DOMAIN tsfns'
                  /\ ~tsfns'[<<k, eventCallbacks[k].tsfn>>].released
                  /\ \A i \in DOMAIN lastOp'.trail :
                         ~(lastOp'.trail[i].ev = "release" /\ lastOp'.trail[i].name = k)]_vars
\* off has released the callback of its event name while another event name
\* holds a live callback.
C25_Witness ==
    /\ lastOp.op = "off"
    /\ \E i \in DOMAIN lastOp.trail :
           lastOp.trail[i].ev = "release" /\ lastOp.trail[i].name = lastOp.arg[1]
    /\ \E k \in DOMAIN eventCallbacks : k # lastOp.arg[1] /\ eventCallbacks[k].active

\* The lock thread t is about to take, "" when its next step takes none.
Wants(t) ==
    LET rest == IF t = "js" THEN pc ELSE osPc
    IN IF rest # <<>> /\ Head(rest).i = "lock" THEN Head(rest).name ELSE ""
\* Thread t waits for a lock that a thread holds.
Blocked(t) == Wants(t) # "" /\ Holder(Wants(t)) # ""

\* C24: the two mutexes cannot deadlock: no thread takes sessionsLock while it
\* holds callbacksLock, no thread takes a mutex it already holds, and the
\* JavaScript thread and the OS thread never wait for each other.
C24_NoDeadlock ==
    /\ \A t \in {"js", "os"} :
           /\ Wants(t) = "sessionsLock" => callbacksLock # t
           /\ Wants(t) # "" => Holder(Wants(t)) # t
    /\ ~(Blocked("js") /\ Blocked("os"))
\* UnregisterAllEvents holds sessionsLock and callbacksLock, one inside the
\* other, while the OS thread waits for one of them.
C24_Witness ==
    /\ sessionsLock = "js" /\ callbacksLock = "js"
    /\ Blocked("os")
====
